---- MODULE Spec2Model ----
(***************************************************************************)
(* Model of mtgjson5/utils.py: parallel_call (a bounded gevent pool map    *)
(* with optional folding of the results), sort_internal_lists (sorting of  *)
(* the lists and sets inside a nested value) and send_push_notification.   *)
(***************************************************************************)
EXTENDS Integers, Sequences, FiniteSets, TLC

VARIABLES
    \* ---- parallel_call ----
    args, repeatable_args, fold_list, fold_dict, force_starmap, pool_size,
    pc,          \* "call" | "map" | "done"
    work,        \* the iterable handed to pool.map
    unpack,      \* TRUE when the mapped callable is lambda g_args: function(*g_args)
    nextIdx,     \* index of the next element of work to spawn
    running,     \* indices whose invocation has started and not finished
    calls,       \* log of the invocations of function, in start order
    ret,         \* ret[i]: the value the invocation for work[i] returned
    queue,       \* the pool's finished tasks, in completion order
    results,     \* what pool.map returned
    retval,      \* what parallel_call returned
    \* ---- sort_internal_lists ----
    data, out, out2, spc,
    \* ---- send_push_notification ----
    app_token, user_tokens, message,
    ppc, pushover_app_users, userIdx, all_succeeded, posts, responses, pret

callVars == <<args, repeatable_args, fold_list, fold_dict, force_starmap, pool_size,
              pc, work, unpack, nextIdx, running, calls, ret, queue, results, retval>>
sortVars == <<data, out, out2, spc>>
pushVars == <<app_token, user_tokens, message,
              ppc, pushover_app_users, userIdx, all_succeeded, posts, responses, pret>>
vars == <<callVars, sortVars, pushVars>>

(***************************************************************************)
(* Python values.  Every value is a record of one shape, so that values of *)
(* different Python types can be compared: t is the type, n the number of  *)
(* an int (or the code of a str), kids the elements of a container (for a  *)
(* dict: its values, in insertion order; the keys are the positions and    *)
(* the code never touches them).                                           *)
(***************************************************************************)
PyInt(n) == [t |-> "int", n |-> n, kids |-> <<>>]
PyStr(n) == [t |-> "str", n |-> n, kids |-> <<>>]
PyList(s) == [t |-> "list", n |-> 0, kids |-> s]
PySet(s) == [t |-> "set", n |-> 0, kids |-> s]
PyDict(s) == [t |-> "dict", n |-> 0, kids |-> s]
TypeError == [t |-> "TypeError", n |-> 0, kids |-> <<>>]

\* ---- bounds ----
MaxArgs == 3
MaxLen == 3
MaxScalar == 3
MaxNodes == 5
MaxCfgLen == 3

\* pool_size's default
DefaultPoolSize == 32

SeqsUpTo(S, n) == UNION {[1..k -> S] : k \in 0..n}

(***************************************************************************)
(* parallel_call                                                           *)
(***************************************************************************)
\* the i-th element of args: a tuple, so that force_starmap can unpack it; the
\* elements differ from each other, and one-element and two-element tuples alternate
Item(i) == IF i % 2 = 1 THEN PyList(<<PyInt(i)>>) ELSE PyList(<<PyInt(i), PyInt(i + 10)>>)
ArgsOfLen(n) == [i \in 1..n |-> Item(i)]
\* repeatable_args: None and () are both falsy and modelled by <<>>
RepeatableArgs == {<<>>, <<PyInt(7)>>}
PoolSizes == {1, 2, DefaultPoolSize}
\* fold_list and fold_dict; the two are not set together
FoldModes == {<<FALSE, FALSE>>, <<TRUE, FALSE>>, <<FALSE, TRUE>>}
\* what function may return: any of these, whatever its arguments
PlainResults == {<<1>>, <<2, 3>>}
ListResults == {<<>>, <<1>>, <<2, 3>>}
\* a dict is the sequence of its items, in insertion order
DictResults == {<<[k |-> "a", v |-> 1]>>, <<[k |-> "a", v |-> 2], [k |-> "b", v |-> 3]>>}

FunctionResults ==
    IF fold_list THEN ListResults ELSE IF fold_dict THEN DictResults ELSE PlainResults

\* zip(args, *[itertools.repeat(arg) for arg in repeatable_args]): the repeats
\* never end, so zip stops with args
ZipRepeat(a, reps) == [i \in 1..Len(a) |-> PyList(<<a[i]>> \o reps)]

\* a faulty WorkShape: force_starmap is looked at before repeatable_args
BrokenWorkShape(a, reps, starmap) ==
    IF starmap THEN [w |-> a, star |-> TRUE]
    ELSE IF reps # <<>> THEN [w |-> ZipRepeat(a, reps), star |-> TRUE]
    ELSE [w |-> a, star |-> FALSE]

\* lines 141-147: the iterable handed to pool.map and whether the callable unpacks
WorkShape(a, reps, starmap) ==
    IF reps # <<>> THEN [w |-> ZipRepeat(a, reps), star |-> TRUE]
    ELSE IF starmap THEN [w |-> a, star |-> TRUE]
    ELSE [w |-> a, star |-> FALSE]

\* the positional arguments function receives for one element of the iterable
Positional(item, star) == IF star THEN item.kids ELSE <<item>>

\* a faulty CanSpawn: the pool has no limit
UnboundedSpawn(alive, size) == TRUE

\* gevent.pool.Pool(pool_size): spawn blocks while pool_size greenlets are alive
CanSpawn(alive, size) == Cardinality(alive) < size

\* a faulty AllDone: the greenlets still running are not waited for
EarlyJoin(nxt, alive, n) == nxt > n

\* pool.map returns only when every element was spawned and every greenlet ended
AllDone(nxt, alive, n) == nxt > n /\ alive = {}

RECURSIVE QueueValue(_, _)
QueueValue(q, i) ==
    IF q = <<>> THEN <<>>
    ELSE IF Head(q).idx = i THEN Head(q).val ELSE QueueValue(Tail(q), i)

\* a faulty MapResults: the results in completion order
CompletionOrder(q, n) == [i \in 1..n |-> q[i].val]

\* pool.map: the results by index of the element, not in completion order
MapResults(q, n) == [i \in 1..n |-> QueueValue(q, i)]

\* a faulty ChainFromIterable: the later results come first
RECURSIVE ReversedChain(_)
ReversedChain(rs) ==
    IF rs = <<>> THEN <<>> ELSE ReversedChain(Tail(rs)) \o Head(rs)

\* list(itertools.chain.from_iterable(results))
RECURSIVE ChainFromIterable(_)
ChainFromIterable(rs) ==
    IF rs = <<>> THEN <<>> ELSE Head(rs) \o ChainFromIterable(Tail(rs))

\* dict membership and lookup
HasKey(d, key) == \E j \in 1..Len(d) : d[j].k = key
RECURSIVE DictGet(_, _)
DictGet(d, key) == IF Head(d).k = key THEN Head(d).v ELSE DictGet(Tail(d), key)

\* d.update(dict.fromkeys(mapping)) on the key list d
RECURSIVE UpdateKeys(_, _)
UpdateKeys(ks, d) ==
    IF d = <<>> THEN ks
    ELSE UpdateKeys(IF \E j \in 1..Len(ks) : ks[j] = Head(d).k THEN ks
                    ELSE Append(ks, Head(d).k), Tail(d))

\* ChainMap.__iter__: the keys of the maps, taken from the last map to the first
RECURSIVE ChainMapKeys(_)
ChainMapKeys(maps) ==
    IF maps = <<>> THEN <<>> ELSE UpdateKeys(ChainMapKeys(Tail(maps)), Head(maps))

\* a faulty ChainMapGet: the last map that holds the key answers
RECURSIVE LastMapWins(_, _)
LastMapWins(maps, key) ==
    IF HasKey(maps[Len(maps)], key) THEN DictGet(maps[Len(maps)], key)
    ELSE LastMapWins(SubSeq(maps, 1, Len(maps) - 1), key)

\* ChainMap.__getitem__: the first map that holds the key answers
RECURSIVE ChainMapGet(_, _)
ChainMapGet(maps, key) ==
    IF HasKey(Head(maps), key) THEN DictGet(Head(maps), key)
    ELSE ChainMapGet(Tail(maps), key)

\* dict(collections.ChainMap(*results))
DictOfChainMap(maps) ==
    LET ks == ChainMapKeys(maps)
    IN  [j \in 1..Len(ks) |-> [k |-> ks[j], v |-> ChainMapGet(maps, ks[j])]]

\* lines 149-155
Fold(rs) ==
    IF fold_list THEN ChainFromIterable(rs)
    ELSE IF fold_dict THEN DictOfChainMap(rs)
    ELSE rs

\* lines 139-147, up to the call of pool.map
Call ==
    /\ pc = "call"
    /\ LET shape == WorkShape(args, repeatable_args, force_starmap)
       IN  /\ work' = shape.w
           /\ unpack' = shape.star
           /\ ret' = [i \in 1..Len(shape.w) |-> <<>>]
    /\ pc' = "map"
    /\ UNCHANGED <<args, repeatable_args, fold_list, fold_dict, force_starmap, pool_size,
                   nextIdx, running, calls, queue, results, retval>>
    /\ UNCHANGED <<sortVars, pushVars>>

\* pool.map spawns the next element's greenlet once the pool has a free slot
Spawn ==
    /\ pc = "map"
    /\ nextIdx <= Len(work)
    /\ CanSpawn(running, pool_size)
    /\ running' = running \cup {nextIdx}
    /\ calls' = Append(calls, [idx |-> nextIdx, fargs |-> Positional(work[nextIdx], unpack)])
    /\ nextIdx' = nextIdx + 1
    /\ UNCHANGED <<args, repeatable_args, fold_list, fold_dict, force_starmap, pool_size,
                   pc, work, unpack, ret, queue, results, retval>>
    /\ UNCHANGED <<sortVars, pushVars>>

\* one running invocation returns; its greenlet leaves the pool
Finish(i, v) ==
    /\ pc = "map"
    /\ i \in running
    /\ running' = running \ {i}
    /\ ret' = [ret EXCEPT ![i] = v]
    /\ queue' = Append(queue, [idx |-> i, val |-> v])
    /\ UNCHANGED <<args, repeatable_args, fold_list, fold_dict, force_starmap, pool_size,
                   pc, work, unpack, nextIdx, calls, results, retval>>
    /\ UNCHANGED <<sortVars, pushVars>>

\* pool.map returns and lines 149-155 fold its results
Return ==
    /\ pc = "map"
    /\ AllDone(nextIdx, running, Len(work))
    /\ results' = MapResults(queue, Len(work))
    /\ retval' = Fold(results')
    /\ pc' = "done"
    /\ UNCHANGED <<args, repeatable_args, fold_list, fold_dict, force_starmap, pool_size,
                   work, unpack, nextIdx, running, calls, ret, queue>>
    /\ UNCHANGED <<sortVars, pushVars>>

CallNext ==
    \/ Call
    \/ Spawn
    \/ \E i \in running : \E v \in FunctionResults : Finish(i, v)
    \/ Return

(***************************************************************************)
(* sort_internal_lists                                                     *)
(***************************************************************************)
\* Python's a < b: "T", "F", or "E" when the two types are not orderable
RECURSIVE Lt(_, _)
RECURSIVE ListLt(_, _)
Lt(a, b) ==
    IF a.t = "int" /\ b.t = "int" THEN (IF a.n < b.n THEN "T" ELSE "F")
    ELSE IF a.t = "str" /\ b.t = "str" THEN (IF a.n < b.n THEN "T" ELSE "F")
    ELSE IF a.t = "list" /\ b.t = "list" THEN ListLt(a.kids, b.kids)
    ELSE IF a.t = "set" /\ b.t = "set"
         THEN (IF /\ \A i \in 1..Len(a.kids) : \E j \in 1..Len(b.kids) : a.kids[i] = b.kids[j]
                  /\ Len(a.kids) < Len(b.kids)
               THEN "T" ELSE "F")
    ELSE "E"

\* lists compare by their first differing elements, then by length
ListLt(x, y) ==
    IF y = <<>> THEN "F"
    ELSE IF x = <<>> THEN "T"
    ELSE IF Head(x) = Head(y) THEN ListLt(Tail(x), Tail(y))
    ELSE Lt(Head(x), Head(y))

\* a faulty Insert: the element is appended where it stands
InsertUnsorted(s, x) == [ok |-> TRUE, s |-> Append(s, x)]

\* one step of sorted(): x goes after the last element it is not less than;
\* a comparison that raises ends the sort
RECURSIVE Insert(_, _)
Insert(s, x) ==
    IF s = <<>> THEN [ok |-> TRUE, s |-> <<x>>]
    ELSE LET c == Lt(x, s[Len(s)])
         IN  IF c = "E" THEN [ok |-> FALSE, s |-> <<>>]
             ELSE IF c = "F" THEN [ok |-> TRUE, s |-> Append(s, x)]
             ELSE LET r == Insert(SubSeq(s, 1, Len(s) - 1), x)
                  IN  IF r.ok THEN [ok |-> TRUE, s |-> Append(r.s, s[Len(s)])]
                      ELSE r

\* sorted(list(data)): a stable ascending sort
RECURSIVE SortedFrom(_, _)
SortedFrom(acc, rest) ==
    IF rest = <<>> THEN [ok |-> TRUE, s |-> acc]
    ELSE LET r == Insert(acc, Head(rest))
         IN  IF r.ok THEN SortedFrom(r.s, Tail(rest)) ELSE r

Sorted(s) == SortedFrom(<<>>, s)

\* lines 164-170: the values of a dict are sorted in turn, a list or a set is
\* replaced by sorted(list(data)) and its elements are not visited
RECURSIVE sort_internal_lists(_)
sort_internal_lists(d) ==
    IF d.t = "dict"
    THEN LET vs == [i \in 1..Len(d.kids) |-> sort_internal_lists(d.kids[i])]
         IN  IF \E i \in 1..Len(vs) : vs[i] = TypeError THEN TypeError ELSE PyDict(vs)
    ELSE IF d.t \in {"set", "list"}
    THEN LET r == Sorted(d.kids)
         IN  IF r.ok THEN PyList(r.s) ELSE TypeError
    ELSE d

\* ---- the inputs of sort_internal_lists ----
Scalars == {PyInt(i) : i \in 1..MaxScalar} \cup {PyStr(1)}
\* the elements of the sequences that are sorted: scalars and two lists
Elements == Scalars \cup {PyList(<<PyInt(2), PyInt(1)>>), PyList(<<PyInt(1)>>)}
FlatLists(maxLen) == {PyList(s) : s \in SeqsUpTo(Elements, maxLen)}

\* the leaves of a nested value
Leaves == {PyInt(1), PyInt(2), PyStr(1), PyList(<<>>), PySet(<<>>), PyDict(<<>>)}
Distinct(s) == \A i, j \in 1..Len(s) : i # j => s[i] # s[j]
\* nested values of exactly n nodes, and sequences of them of m nodes in all
RECURSIVE Trees(_)
RECURSIVE Forests(_)
Trees(n) ==
    IF n = 1 THEN Leaves
    ELSE {PyList(f) : f \in Forests(n - 1)} \cup {PyDict(f) : f \in Forests(n - 1)}
         \cup {PySet(f) : f \in {g \in Forests(n - 1) :
                                   /\ Distinct(g)
                                   /\ \A i \in 1..Len(g) : g[i].t \in {"int", "str"}}}
Forests(m) ==
    IF m = 0 THEN {<<>>}
    ELSE UNION {{<<t>> \o f : t \in Trees(k), f \in Forests(m - k)} : k \in 1..m}
NestedValues(maxNodes) == UNION {Trees(n) : n \in 1..maxNodes}

SortOnce ==
    /\ spc = "start"
    /\ out' = sort_internal_lists(data)
    /\ spc' = "once"
    /\ UNCHANGED <<data, out2>>
    /\ UNCHANGED <<callVars, pushVars>>

\* the value returned is sorted again
SortTwice ==
    /\ spc = "once"
    /\ out # TypeError
    /\ out2' = sort_internal_lists(out)
    /\ spc' = "twice"
    /\ UNCHANGED <<data, out>>
    /\ UNCHANGED <<callVars, pushVars>>

SortNext == SortOnce \/ SortTwice

(***************************************************************************)
(* send_push_notification                                                  *)
(***************************************************************************)
\* a string is the sequence of its characters
TokenChars == {"u", "v", ","}
AppTokens == {<<>>, <<"t">>}
Messages == {"m1", "m2"}

\* str.split(","): the pieces between the commas, empty pieces included
RECURSIVE SplitFrom(_, _, _)
SplitFrom(s, cur, acc) ==
    IF s = <<>> THEN Append(acc, cur)
    ELSE IF Head(s) = "," THEN SplitFrom(Tail(s), <<>>, Append(acc, cur))
    ELSE SplitFrom(Tail(s), Append(cur, Head(s)), acc)

Split(s) == SplitFrom(s, <<>>, <<>>)

\* filter(None, pieces): the empty strings are dropped
RECURSIVE FilterNone(_)
FilterNone(ps) ==
    IF ps = <<>> THEN <<>>
    ELSE IF Head(ps) = <<>> THEN FilterNone(Tail(ps))
    ELSE <<Head(ps)>> \o FilterNone(Tail(ps))

\* a faulty CredentialsMissing: only the recipients are looked at
OnlyUsersChecked(token, users) == users = <<>>

\* lines 237-243: not pushover_app_token, then not pushover_app_users
CredentialsMissing(token, users) == token = <<>> \/ users = <<>>

\* a faulty NextAllSucceeded: the last response decides
LastResponseWins(cur, ok) == ok

\* lines 256-258
NextAllSucceeded(cur, ok) == IF ~ok THEN FALSE ELSE cur

\* lines 232-245
PushBegin ==
    /\ ppc = "start"
    /\ LET users == FilterNone(Split(user_tokens))
       IN  /\ pushover_app_users' = users
           /\ IF CredentialsMissing(app_token, users)
              THEN /\ pret' = FALSE
                   /\ ppc' = "done"
                   /\ UNCHANGED all_succeeded
              ELSE /\ all_succeeded' = TRUE
                   /\ ppc' = "loop"
                   /\ UNCHANGED pret
    /\ UNCHANGED <<app_token, user_tokens, message, userIdx, posts, responses>>
    /\ UNCHANGED <<callVars, sortVars>>

\* lines 246-258: one turn of the loop; ok is response.ok
PushPost(ok) ==
    /\ ppc = "loop"
    /\ userIdx <= Len(pushover_app_users)
    /\ posts' = Append(posts, [token |-> app_token,
                               user |-> pushover_app_users[userIdx],
                               message |-> message])
    /\ responses' = Append(responses, ok)
    /\ all_succeeded' = NextAllSucceeded(all_succeeded, ok)
    /\ userIdx' = userIdx + 1
    /\ UNCHANGED <<app_token, user_tokens, message, ppc, pushover_app_users, pret>>
    /\ UNCHANGED <<callVars, sortVars>>

\* line 260
PushReturn ==
    /\ ppc = "loop"
    /\ userIdx > Len(pushover_app_users)
    /\ pret' = all_succeeded
    /\ ppc' = "done"
    /\ UNCHANGED <<app_token, user_tokens, message, pushover_app_users, userIdx,
                   all_succeeded, posts, responses>>
    /\ UNCHANGED <<callVars, sortVars>>

PushNext ==
    \/ PushBegin
    \/ \E ok \in BOOLEAN : PushPost(ok)
    \/ PushReturn

(***************************************************************************)
(* The specifications: one per function, the other functions' state idle.  *)
(***************************************************************************)
CallStart ==
    /\ \E n \in 0..MaxArgs : args = ArgsOfLen(n)
    /\ repeatable_args \in RepeatableArgs
    /\ \E m \in FoldModes : fold_list = m[1] /\ fold_dict = m[2]
    /\ force_starmap \in BOOLEAN
    /\ pool_size \in PoolSizes
    /\ pc = "call"

CallIdle ==
    /\ args = <<>>
    /\ repeatable_args = <<>>
    /\ fold_list = FALSE
    /\ fold_dict = FALSE
    /\ force_starmap = FALSE
    /\ pool_size = 1
    /\ pc = "idle"

CallLocals ==
    /\ work = <<>>
    /\ unpack = FALSE
    /\ nextIdx = 1
    /\ running = {}
    /\ calls = <<>>
    /\ ret = <<>>
    /\ queue = <<>>
    /\ results = <<>>
    /\ retval = <<>>

SortIdle == data = TypeError /\ out = TypeError /\ out2 = TypeError /\ spc = "idle"

PushIdle ==
    /\ app_token = <<>>
    /\ user_tokens = <<>>
    /\ message = "m1"
    /\ ppc = "idle"

PushLocals ==
    /\ pushover_app_users = <<>>
    /\ userIdx = 1
    /\ all_succeeded = FALSE
    /\ posts = <<>>
    /\ responses = <<>>
    /\ pret = FALSE

InitCall == CallStart /\ CallLocals /\ SortIdle /\ PushIdle /\ PushLocals

SpecCall == InitCall /\ [][CallNext]_vars

\* the calls that vary the argument shape without folding, or fold with neither
\* repeatable_args nor force_starmap
InitFair ==
    /\ InitCall
    /\ \/ ~fold_list /\ ~fold_dict
       \/ repeatable_args = <<>> /\ ~force_starmap

\* every greenlet is scheduled and function returns: a step that can be taken is taken
FairSpecCall == InitFair /\ [][CallNext]_vars /\ WF_vars(CallNext)

\* sort_internal_lists on a sequence of scalars and lists
InitSeq ==
    /\ data \in FlatLists(MaxLen)
    /\ out = TypeError /\ out2 = TypeError /\ spc = "start"
    /\ CallIdle /\ CallLocals /\ PushIdle /\ PushLocals

SpecSeq == InitSeq /\ [][SortNext]_vars

\* sort_internal_lists on a nested value
InitNest ==
    /\ data \in NestedValues(MaxNodes)
    /\ out = TypeError /\ out2 = TypeError /\ spc = "start"
    /\ CallIdle /\ CallLocals /\ PushIdle /\ PushLocals

SpecNest == InitNest /\ [][SortNext]_vars

InitPush ==
    /\ app_token \in AppTokens
    /\ user_tokens \in SeqsUpTo(TokenChars, MaxCfgLen)
    /\ message \in Messages
    /\ ppc = "start"
    /\ PushLocals /\ CallIdle /\ CallLocals /\ SortIdle

SpecPush == InitPush /\ [][PushNext]_vars

(***************************************************************************)
(* Properties of parallel_call                                             *)
(***************************************************************************)
\* the invocations of function made for the i-th element of args
CallsFor(i) == {j \in 1..Len(calls) : calls[j].idx = i}

\* C1: without folding, parallel_call returns one result per element of args, the
\* i-th being what the invocation made for the i-th element returned, whatever
\* the order in which the invocations completed
C1_InputOrder ==
    (pc = "done" /\ ~fold_list /\ ~fold_dict) =>
        /\ Len(retval) = Len(args)
        /\ \A i \in 1..Len(args) : CallsFor(i) # {} /\ retval[i] = ret[i]

C1_Witness ==
    /\ pc = "done" /\ ~fold_list /\ ~fold_dict
    /\ Len(queue) >= 2
    /\ queue[1].idx > queue[2].idx
    /\ ret[1] # ret[2]

\* C2: the invocations started and not finished never outnumber pool_size
C2_Bounded == Cardinality(running) <= pool_size

C2_Witness ==
    /\ pc = "map"
    /\ Cardinality(running) = pool_size
    /\ nextIdx <= Len(work)
    /\ Len(args) > pool_size

KeysOf(d) == {d[j].k : j \in 1..Len(d)}
FirstWith(key) ==
    CHOOSE i \in 1..Len(ret) : HasKey(ret[i], key) /\ \A j \in 1..(i - 1) : ~HasKey(ret[j], key)
LastWith(key) ==
    CHOOSE i \in 1..Len(ret) : HasKey(ret[i], key) /\ \A j \in (i + 1)..Len(ret) : ~HasKey(ret[j], key)
MergedKeys ==
    /\ KeysOf(retval) = UNION {KeysOf(ret[i]) : i \in 1..Len(ret)}
    /\ \A i, j \in 1..Len(retval) : i # j => retval[i].k # retval[j].k

RECURSIVE LenSum(_, _)
LenSum(rs, n) == IF n = 0 THEN 0 ELSE LenSum(rs, n - 1) + Len(rs[n])

\* C8: with fold_list parallel_call returns the per-item results concatenated in
\* input order, each keeping its own order and an empty one adding nothing
C8_FoldList ==
    (pc = "done" /\ fold_list) =>
        /\ Len(ret) = Len(args)
        /\ Len(retval) = LenSum(ret, Len(ret))
        /\ \A i \in 1..Len(ret) : \A j \in 1..Len(ret[i]) :
               retval[LenSum(ret, i - 1) + j] = ret[i][j]

C8_Witness ==
    /\ pc = "done" /\ fold_list
    /\ Len(args) >= 3
    /\ ret[1] = <<2, 3>> /\ ret[2] = <<>> /\ ret[3] = <<1>>
    /\ queue[1].idx = 3

InvokedOnceEach == \A i \in 1..Len(args) : Cardinality(CallsFor(i)) = 1

\* C9: parallel_call returns in the end; when it does, function was invoked once
\* for each element of args and every invocation has completed; before that
\* nothing is delivered
C9_Blocking ==
    /\ <>(pc = "done")
    /\ [](pc = "done" => InvokedOnceEach /\ running = {} /\ Len(queue) = Len(args))
    /\ [](pc # "done" => results = <<>> /\ retval = <<>>)

C9_Witness ==
    /\ pc = "done"
    /\ Len(args) >= 3
    /\ queue[1].idx = 2
    /\ pool_size = 2

\* C10: repeatable_args decides the arguments first: function(item, *repeatable_args)
\* when it is not empty, force_starmap or not; else function(*item) with
\* force_starmap and function(item) without
C10_ArgumentShape ==
    \A j \in 1..Len(calls) :
        LET item == args[calls[j].idx]
        IN  calls[j].fargs =
                IF repeatable_args # <<>> THEN <<item>> \o repeatable_args
                ELSE IF force_starmap THEN item.kids
                ELSE <<item>>

C10_Witness ==
    /\ pc = "done"
    /\ repeatable_args # <<>> /\ force_starmap
    /\ Len(calls) >= 2

(***************************************************************************)
(* Properties of sort_internal_lists                                       *)
(***************************************************************************)
Comparable(s) == \A i, j \in 1..Len(s) : Lt(s[i], s[j]) # "E"
Ascending(s) == \A i, j \in 1..Len(s) : i < j => Lt(s[j], s[i]) = "F"
Count(s, e) == Cardinality({i \in 1..Len(s) : s[i] = e})
SameElements(s, r) ==
    /\ Len(s) = Len(r)
    /\ \A i \in 1..Len(s) : Count(s, s[i]) = Count(r, s[i])

\* every list or set inside v is in ascending order
RECURSIVE AllAscending(_)
AllAscending(v) ==
    /\ v.t \in {"list", "set"} => Ascending(v.kids)
    /\ \A i \in 1..Len(v.kids) : AllAscending(v.kids[i])

\* the elements of each list or set inside v are comparable with each other
RECURSIVE ComparableWithin(_)
ComparableWithin(v) ==
    /\ v.t \in {"list", "set"} => Comparable(v.kids)
    /\ \A i \in 1..Len(v.kids) : ComparableWithin(v.kids[i])

\* C4: for any nesting of mappings, sequences and sets whose elements are
\* comparable wherever they share a sequence or set, sort_internal_lists does not
\* fail and every sequence or set of the value it returns is in ascending order
C4_SortsEveryDepth ==
    (spc \in {"once", "twice"} /\ ComparableWithin(data)) =>
        out # TypeError /\ AllAscending(out)

\* C5: on a sequence of mutually comparable elements sort_internal_lists returns
\* the same elements in ascending order, and sorting the result again changes nothing
C5_SortedIdempotent ==
    (spc \in {"once", "twice"} /\ data.t = "list" /\ Comparable(data.kids)) =>
        /\ out.t = "list"
        /\ Ascending(out.kids)
        /\ SameElements(data.kids, out.kids)
        /\ spc = "twice" => out2 = out

C5_Witness ==
    /\ spc = "twice"
    /\ Len(data.kids) >= 3
    /\ Comparable(data.kids)
    /\ out.kids # data.kids
    /\ out.kids[1] = out.kids[2]

(***************************************************************************)
(* Properties of send_push_notification                                    *)
(***************************************************************************)
OnlyCommas(s) == \A i \in 1..Len(s) : s[i] = ","

\* C6: with an empty application token, or with no recipient left once the empty
\* entries are dropped, no request is issued and False is returned
C6_NoCredentials ==
    (ppc # "idle" /\ (app_token = <<>> \/ OnlyCommas(user_tokens))) =>
        /\ posts = <<>>
        /\ ppc \in {"start", "done"}
        /\ ppc = "done" => pret = FALSE

C6_Witness ==
    /\ ppc = "done"
    /\ app_token = <<>>
    /\ Len(pushover_app_users) >= 2

\* C7: with credentials, the message is posted once to each recipient, in list
\* order, whatever the earlier responses were, and True is returned exactly when
\* every response was ok
C7_AllRecipients ==
    (ppc = "done" /\ app_token # <<>> /\ ~OnlyCommas(user_tokens)) =>
        /\ pushover_app_users # <<>>
        /\ LenSum(pushover_app_users, Len(pushover_app_users))
               = Cardinality({i \in 1..Len(user_tokens) : user_tokens[i] # ","})
        /\ Len(posts) = Len(pushover_app_users)
        /\ \A i \in 1..Len(posts) :
               posts[i] = [token |-> app_token, user |-> pushover_app_users[i],
                           message |-> message]
        /\ pret <=> \A i \in 1..Len(responses) : responses[i]

C7_Witness ==
    /\ ppc = "done"
    /\ Len(posts) >= 2
    /\ ~responses[1]
    /\ responses[2]
    /\ posts[1].user # posts[2].user
====
